---------------------------- MODULE Spec2Model ----------------------------
(***************************************************************************)
(* A model of recent_projects.py, the script behind the JetBrains          *)
(* "recent projects" launcher workflow.  Python strings are TLA+ strings   *)
(* (TLC evaluates Len, \o, SubSeq, Head and Tail on them); the calls to    *)
(* the operating system read the environment variables below.              *)
(***************************************************************************)
EXTENDS Naturals, Sequences, FiniteSets, TLC

VARIABLES
    rootExists,  \* whether the preferences root directory exists
    dirs,        \* the root's immediate subdirectories, in os.walk's order
    xml,         \* folder name -> its options/recentProjects.xml (or NoFile)
    nameFiles,   \* expanded project paths that hold an .idea/.name file
    running,     \* strings pgrep finds in the process table
    pgrepOK,     \* whether /usr/bin/pgrep can be executed
    call,        \* the invocation: the function or command and its arguments
    ret          \* what the invocation produced (NoRet before it ran)

vars == <<rootExists, dirs, xml, nameFiles, running, pgrepOK, call, ret>>

env == <<rootExists, dirs, xml, nameFiles, running, pgrepOK>>

-----------------------------------------------------------------------------
(* Bounds of the model *)

MaxEntries == 2

MaxDocEntries == 2

MaxFolders == 3

MaxProjects == 3

MaxNameLen == 4

-----------------------------------------------------------------------------
(* Python's str operations *)

Char(s, i) == SubSeq(s, i, i)

\* Characters in code point order: str comparison compares code points.
CodePoints == " $()-./0123456789ABCDEFGHIJKLMNOPQRSTUVWXYZ_abcdefghijklmnopqrstuvwxyz|~"

\* The lower-case letter of each upper-case letter.
ToLower ==
    [A |-> "a", B |-> "b", C |-> "c", D |-> "d", E |-> "e", F |-> "f", G |-> "g",
     H |-> "h", I |-> "i", J |-> "j", K |-> "k", L |-> "l", M |-> "m", N |-> "n",
     O |-> "o", P |-> "p", Q |-> "q", R |-> "r", S |-> "s", T |-> "t", U |-> "u",
     V |-> "v", W |-> "w", X |-> "x", Y |-> "y", Z |-> "z"]

ord(c) == CHOOSE i \in 1..Len(CodePoints) : Char(CodePoints, i) = c

\* sub in s
contains(sub, s) ==
    \E i \in 0..(Len(s) - Len(sub)) : SubSeq(s, i + 1, i + Len(sub)) = sub

startswith(s, prefix) ==
    /\ Len(prefix) <= Len(s)
    /\ SubSeq(s, 1, Len(prefix)) = prefix

lower_char(c) == IF c \in DOMAIN ToLower THEN ToLower[c] ELSE c

RECURSIVE lower(_)
lower(s) == IF s = "" THEN "" ELSE lower_char(Head(s)) \o lower(Tail(s))

\* s.replace(old, new): the occurrences of old, leftmost first, not overlapping
RECURSIVE replace(_, _, _)
replace(s, old, new) ==
    IF Len(s) < Len(old) THEN s
    ELSE IF startswith(s, old)
         THEN new \o replace(SubSeq(s, Len(old) + 1, Len(s)), old, new)
         ELSE Head(s) \o replace(Tail(s), old, new)

\* s.split('/')[-1]: what follows the last '/', the whole of s if it has none
RECURSIVE last_segment(_)
last_segment(s) ==
    IF ~contains("/", s) THEN s
    ELSE last_segment(Tail(s))

\* a < b on str
RECURSIVE str_less(_, _)
str_less(a, b) ==
    IF b = "" THEN FALSE
    ELSE IF a = "" THEN TRUE
    ELSE IF Head(a) = Head(b) THEN str_less(Tail(a), Tail(b))
    ELSE ord(Head(a)) < ord(Head(b))

HOME == "/Users/me"

\* os.path.expanduser for the current user's "~"
expanduser(path) ==
    IF path = "~" \/ startswith(path, "~/") THEN HOME \o Tail(path) ELSE path

\* reversed(seq)
reversed(seq) == [i \in 1..Len(seq) |-> seq[Len(seq) + 1 - i]]

-----------------------------------------------------------------------------
(* Outcomes of an invocation *)

\* What a recentProjects.xml path holds: nothing, text that is no XML, or a
\* document, kept as its entry elements in document order, each with the names
\* of the component and option that enclose its map.
NoFile == [kind |-> "nofile"]

Malformed == [kind |-> "malformed"]

Document(entries) == [kind |-> "doc", entries |-> entries]

NoRet == [kind |-> "none"]

\* A function returned value v.
Returned(v) == [kind |-> "return", value |-> v]

\* A function raised exception e (out: what it wrote to standard output first).
Raised(e) == [kind |-> "raise", error |-> e, out |-> <<>>]

IsRaised(r) == r.kind = "raise"

\* A statement after a call: skipped when the call raised, which propagates.
Try(r, next(_)) == IF IsRaised(r) THEN r ELSE next(r.value)

-----------------------------------------------------------------------------
(* class Project *)

BREAK_CHARACTERS == {"_", "-"}

\* The text of a project's .idea/.name file.
NameFileText(expanded) == "My-Pet_Clinic"

RECURSIVE abbreviate_loop(_, _, _)
abbreviate_loop(rest, previous_was_break, abbreviation) ==
    IF rest = "" THEN abbreviation
    ELSE IF Head(rest) \in BREAK_CHARACTERS
         THEN abbreviate_loop(Tail(rest), TRUE, abbreviation)
         ELSE IF previous_was_break
              THEN abbreviate_loop(Tail(rest), FALSE, abbreviation \o Head(rest))
              ELSE abbreviate_loop(Tail(rest), previous_was_break, abbreviation)

abbreviate_break_first(name) ==
    IF name = "" THEN Raised("IndexError")
    ELSE Returned(abbreviate_loop(Tail(name), Head(name) \in BREAK_CHARACTERS,
                                  Head(name)))

\* Project.abbreviate; name[0] raises IndexError on an empty name
abbreviate(name) ==
    IF name = "" THEN Raised("IndexError")
    ELSE Returned(abbreviate_loop(Tail(name), FALSE, Head(name)))

project_name(path) ==
    IF expanduser(path) \in nameFiles
    THEN NameFileText(expanduser(path))
    ELSE last_segment(path)

\* Project.__init__
Project(path) ==
    Try(abbreviate(project_name(path)), LAMBDA abbreviation :
        Returned([path |-> path, name |-> project_name(path),
                  abbreviation |-> abbreviation]))

matches_query(p, query) ==
    \/ contains(query, lower(p.path))
    \/ contains(query, lower(p.abbreviation))
    \/ contains(query, lower(p.name))

sort_on_match_type_name_first(p, query) ==
    IF contains(query, p.name) THEN 1
    ELSE IF query = p.abbreviation THEN 0
    ELSE 2

sort_on_match_type(p, query) ==
    IF query = p.abbreviation THEN 0
    ELSE IF contains(query, p.name) THEN 1
    ELSE 2

-----------------------------------------------------------------------------
(* filter_and_sort_projects *)

RECURSIVE filter(_, _)
filter(projects, query) ==
    IF projects = <<>> THEN <<>>
    ELSE IF matches_query(Head(projects), query)
         THEN <<Head(projects)>> \o filter(Tail(projects), query)
         ELSE filter(Tail(projects), query)

\* Insert p after every element of the sorted list whose key is <= p's.
RECURSIVE insert_sorted(_, _, _)
insert_sorted(sorted, p, query) ==
    IF sorted = <<>> THEN <<p>>
    ELSE IF sort_on_match_type(Head(sorted), query) <= sort_on_match_type(p, query)
         THEN <<Head(sorted)>> \o insert_sorted(Tail(sorted), p, query)
         ELSE <<p>> \o sorted

\* list.sort(key=...): a stable sort, ascending in the key
RECURSIVE sort(_, _, _)
sort(sorted, todo, query) ==
    IF todo = <<>> THEN sorted
    ELSE sort(insert_sorted(sorted, Head(todo), query), Tail(todo), query)

filter_and_sort_projects_none(query, projects) ==
    IF Len(query) < 1 THEN <<>>
    ELSE sort(<<>>, filter(projects, query), query)

filter_and_sort_projects(query, projects) ==
    IF Len(query) < 1 THEN projects
    ELSE sort(<<>>, filter(projects, query), query)

-----------------------------------------------------------------------------
(* class Product and load_product *)

\* products.json: keyword -> the product's entry (display_name "" when the
\* entry has none)
Catalog ==
    [goland |-> [folder_name |-> "GoLand", bundle_id |-> "com.jetbrains.goland",
                 display_name |-> ""],
     clion  |-> [folder_name |-> "CLion", bundle_id |-> "com.jetbrains.clion",
                 display_name |-> "CLion IDE"]]

PREFERENCES_PATH == "~/Library/Application Support/JetBrains/"

Product(keyword, data) ==
    [keyword |-> keyword, folder_name |-> data.folder_name,
     bundle_id |-> data.bundle_id, display_name |-> data.display_name,
     preferences_path |-> PREFERENCES_PATH]

\* Product.name
product_name(app) ==
    IF app.display_name # "" THEN app.display_name ELSE app.folder_name

\* exit(1) after a message on standard output when the keyword is unknown
load_product(keyword) ==
    IF keyword \in DOMAIN Catalog
    THEN Returned(Product(keyword, Catalog[keyword]))
    ELSE [Raised("SystemExit") EXCEPT
            !.out = <<[text |-> "App '" \o keyword
                                \o "' is not found in the products.json"]>>]

-----------------------------------------------------------------------------
(* HistorySource: find_recentprojects_file and read_projects_from_file *)

should_ignore_folder_never(folder_name) == FALSE

should_ignore_folder(folder_name) == contains("backup", folder_name)

RECURSIVE select_folders(_, _)
select_folders(names, application) ==
    IF names = <<>> THEN <<>>
    ELSE IF /\ contains(application.folder_name, Head(names))
            /\ ~should_ignore_folder(Head(names))
         THEN <<Head(names)>> \o select_folders(Tail(names), application)
         ELSE select_folders(Tail(names), application)

\* next(os.walk(path)) raises StopIteration when path is no directory
find_preferences_folders(preferences_path, application) ==
    IF ~rootExists THEN Raised("StopIteration")
    ELSE Returned(select_folders(dirs, application))

\* max(list): the first greatest element; ValueError on an empty list
RECURSIVE max_loop(_, _)
max_loop(best, rest) ==
    IF rest = <<>> THEN best
    ELSE IF str_less(best, Head(rest)) THEN max_loop(Head(rest), Tail(rest))
         ELSE max_loop(best, Tail(rest))

max(list) ==
    IF list = <<>> THEN Raised("ValueError")
    ELSE Returned(max_loop(Head(list), Tail(list)))

find_recentprojects_file(application) ==
    Try(find_preferences_folders(expanduser(application.preferences_path),
                                 application), LAMBDA folders :
    Try(max(folders), LAMBDA most_recent_preferences :
        Returned(expanduser(application.preferences_path)
                 \o most_recent_preferences \o "/options/recentProjects.xml")))

\* The file at a path: only the folders' recentProjects.xml files are modelled.
file_at(path) ==
    LET holders == {i \in 1..Len(dirs) :
                      /\ rootExists
                      /\ path = expanduser(PREFERENCES_PATH) \o dirs[i]
                                \o "/options/recentProjects.xml"}
    IN  IF holders = {} THEN NoFile ELSE xml[dirs[CHOOSE i \in holders : TRUE]]

\* tree.findall(".//component[@name='RecentProjectsManager']
\*               /option[@name='additionalInfo']/map/entry"), in document order
RECURSIVE findall_entries(_)
findall_entries(doc) ==
    IF doc = <<>> THEN <<>>
    ELSE IF /\ Head(doc).component = "RecentProjectsManager"
            /\ Head(doc).option = "additionalInfo"
         THEN <<Head(doc)>> \o findall_entries(Tail(doc))
         ELSE findall_entries(Tail(doc))

\* ElementTree.parse of what a path holds
parse(file) ==
    IF file.kind = "nofile" THEN Raised("FileNotFoundError")
    ELSE IF file.kind = "malformed" THEN Raised("ParseError")
    ELSE Returned(file.entries)

home_shorthand(entries) ==
    [i \in 1..Len(entries) |-> replace(entries[i].key, "$USER_HOME$", "~")]

read_projects_from_file_unreversed(most_recent_projects_file) ==
    Try(parse(file_at(most_recent_projects_file)), LAMBDA tree :
        Returned(home_shorthand(findall_entries(tree))))

read_projects_from_file(most_recent_projects_file) ==
    Try(parse(file_at(most_recent_projects_file)), LAMBDA tree :
        Returned(reversed(home_shorthand(findall_entries(tree)))))

-----------------------------------------------------------------------------
(* ProcessGate: is_process_running *)

\* pgrep -i -f app_name: a case-insensitive match on the command lines
pgrep_matches(app_name) ==
    \E cmdline \in running : contains(lower(app_name), lower(cmdline))

\* check_output raises CalledProcessError when pgrep exits non-zero (1: no
\* match, 2 or 3: pgrep itself failed), and FileNotFoundError or
\* PermissionError when pgrep cannot be started.  Only the first is caught.
is_process_running(app_name) ==
    IF pgrepOK = "absent" THEN Raised("FileNotFoundError")
    ELSE IF pgrepOK = "denied" THEN Raised("PermissionError")
    ELSE IF pgrepOK = "failed" THEN Returned(FALSE)
    ELSE Returned(pgrep_matches(app_name))

-----------------------------------------------------------------------------
(* The result protocol: AlfredMod, AlfredItem, AlfredOutput.  A document is  *)
(* kept as the value its JSON text encodes: the object's __dict__, where an  *)
(* attribute that was never set is absent.  Titles and subtitles are written  *)
(* without the source's pictographs.                                          *)

NoVars == [none |-> TRUE]

AlfredMod(arg, subtitle, valid) ==
    [valid |-> valid, arg |-> arg, subtitle |-> subtitle]

\* AlfredItem.__init__ with alfred_type="file" and the autocomplete given
AlfredItemFull(title, subtitle, arg, valid, variables, autocomplete) ==
    LET item == [title |-> title, subtitle |-> subtitle, arg |-> arg,
                 type |-> "file", autocomplete |-> autocomplete, valid |-> valid]
    IN  IF variables = NoVars THEN item
        ELSE [k \in DOMAIN item \cup {"variables"} |->
                IF k = "variables" THEN variables ELSE item[k]]

\* AlfredItem(title, subtitle, arg): valid=True, no vars, autocomplete=None
AlfredItem(title, subtitle, arg) ==
    AlfredItemFull(title, subtitle, arg, TRUE, NoVars, "|" \o subtitle \o "|")

\* AlfredItem.add_mod
add_mod(item, key_combination, action) ==
    LET mods == IF "mods" \in DOMAIN item THEN item.mods ELSE <<>>
    IN  [k \in DOMAIN item \cup {"mods"} |->
           IF k = "mods"
           THEN [c \in DOMAIN mods \cup {key_combination} |->
                   IF c = key_combination THEN action ELSE mods[c]]
           ELSE item[k]]

AlfredOutput(items, variables) == [variables |-> variables, items |-> items]

\* sys.stdout.write of a plain message
Text(message) == [text |-> message]

\* What a command did: its writes to standard output, and the exception that
\* ended it ("none" when it returned).
Outcome(out, error) == [out |-> out, error |-> error]

\* The rest of a command after a call: an exception of the call ends the command.
Catch(r, next(_)) == IF IsRaised(r) THEN Outcome(r.out, r.error) ELSE next(r.value)

-----------------------------------------------------------------------------
(* manage_entry *)

manage_mod == AlfredMod("", "Press (tab) to return to main list", FALSE)

manage_items(project, app, is_running) ==
    LET open_item ==
            AlfredItemFull("Open " \o project.name \o " in " \o product_name(app),
                           "Open this project in the IDE", project.path,
                           TRUE, NoVars, "")
    IN  IF is_running
        THEN << AlfredItemFull("Quit " \o product_name(app) \o " to see all options",
                               "Action this item to go back to main list",
                               "", FALSE, NoVars, ""),
                open_item >>
        ELSE << AlfredItemFull("Remove " \o project.name \o " from list",
                               "The project will remain on your drive",
                               project.path, TRUE, [remove_from_list |-> TRUE], ""),
                AlfredItemFull("Delete " \o project.name \o " from disk",
                               "The project will be moved to the trash and removed from the list",
                               project.path, TRUE, [delete_from_disk |-> TRUE], ""),
                open_item,
                AlfredItemFull("Go back", "Action this item to go back to main list",
                               "", FALSE, NoVars, "") >>

add_mod_to_all(items, action) ==
    [i \in 1..Len(items) |-> add_mod(items[i], "alt", action)]

manage_entry_ungated(project, app) ==
    Catch(is_process_running(app.keyword), LAMBDA is_running :
        Outcome(<<AlfredOutput(add_mod_to_all(manage_items(project, app, FALSE),
                                              manage_mod),
                               [app_keyword |-> app.keyword])>>, "none"))

manage_entry(project, app) ==
    Catch(is_process_running(app.keyword), LAMBDA is_running :
        Outcome(<<AlfredOutput(add_mod_to_all(manage_items(project, app, is_running),
                                              manage_mod),
                               [app_keyword |-> app.keyword])>>, "none"))

-----------------------------------------------------------------------------
(* get_projects and list_options_in_alfred *)

\* list(map(Project, paths)): the first constructor that raises ends the map
RECURSIVE map_Project(_)
map_Project(paths) ==
    IF paths = <<>> THEN Returned(<<>>)
    ELSE Try(Project(Head(paths)), LAMBDA first :
         Try(map_Project(Tail(paths)), LAMBDA others :
             Returned(<<first>> \o others)))

get_projects(app_keyword) ==
    Try(load_product(app_keyword), LAMBDA app :
    Try(find_recentprojects_file(app), LAMBDA recent_projects_file :
    Try(read_projects_from_file(recent_projects_file), LAMBDA paths :
    Try(map_Project(paths), LAMBDA projects :
        Returned([app |-> app, projects |-> projects])))))

\* re.findall(r'\|(.+?)\|', query): the places of the first match's bars
match_starts(query) ==
    {i \in 1..Len(query) :
        /\ Char(query, i) = "|"
        /\ \E j \in (i + 2)..Len(query) : Char(query, j) = "|"}

\* matches[0]: the leftmost match, as short as it can be
first_match(query) ==
    LET i == CHOOSE a \in match_starts(query) :
                 \A b \in match_starts(query) : a <= b
        ends == {j \in (i + 2)..Len(query) : Char(query, j) = "|"}
        j == CHOOSE a \in ends : \A b \in ends : a <= b
    IN  SubSeq(query, i + 1, j - 1)

RECURSIVE with_path(_, _)
with_path(projects, project_path) ==
    IF projects = <<>> THEN <<>>
    ELSE IF Head(projects).path = project_path
         THEN <<Head(projects)>> \o with_path(Tail(projects), project_path)
         ELSE with_path(Tail(projects), project_path)

list_mod_enabled == AlfredMod("", "Press (tab) to manage item", TRUE)

list_mod == AlfredMod("", "Press (tab) to manage item", FALSE)

list_items(projects) ==
    [i \in 1..Len(projects) |->
        AlfredItem(projects[i].name, projects[i].path, projects[i].path)]

\* [...][0] raises IndexError on an empty list
first_of(list) == IF list = <<>> THEN Raised("IndexError") ELSE Returned(list[1])

\* The body of list_options_in_alfred's try statement.
list_try(app_keyword, query) ==
    Catch(get_projects(app_keyword), LAMBDA got :
        IF match_starts(query) # {}
        THEN Catch(first_of(with_path(got.projects, first_match(query))),
                   LAMBDA project : manage_entry(project, got.app))
        ELSE Outcome(<<AlfredOutput(
                         add_mod_to_all(
                             list_items(filter_and_sort_projects(query, got.projects)),
                             list_mod),
                         [app_keyword |-> app_keyword])>>, "none"))

no_preferences_item_disabled(app_keyword) ==
    AlfredItemFull("Open " \o app_keyword,
                   "This is a backup option since no preferences were found for "
                       \o app_keyword,
                   "", FALSE, NoVars, "")

no_preferences_item(app_keyword) ==
    AlfredItemFull("Open " \o app_keyword,
                   "This is a backup option since no preferences were found for "
                       \o app_keyword,
                   "", TRUE, NoVars, "")

no_projects_file_item(app_keyword) ==
    AlfredItemFull("Open " \o app_keyword,
                   "This is a backup option since the projects file was not found for "
                       \o app_keyword,
                   "", TRUE, NoVars, "")

\* The except clauses of list_options_in_alfred.
list_except(app_keyword, tried) ==
    IF tried.error = "ValueError"
    THEN Outcome(tried.out \o <<AlfredOutput(<<no_preferences_item(app_keyword)>>,
                                             [app_keyword |-> app_keyword])>>,
                 "none")
    ELSE IF tried.error = "FileNotFoundError"
    THEN Outcome(tried.out \o <<AlfredOutput(<<no_projects_file_item(app_keyword)>>,
                                             [app_keyword |-> app_keyword])>>,
                 "none")
    ELSE tried

list_options_in_alfred(app_keyword, query) ==
    list_except(app_keyword, list_try(app_keyword, query))

-----------------------------------------------------------------------------
(* open_app and remove_project *)

\* subprocess.run is called without check=True: it raises no CalledProcessError.
open_app(app_keyword, args) ==
    Catch(load_product(app_keyword), LAMBDA app :
        [out |-> <<>>, error |-> "none",
         ran |-> << <<"osascript", "-e",
                      "tell application \"" \o product_name(app) \o "\" to activate">>,
                    <<"open", "-nb", app.bundle_id>>
                        \o (IF args = <<>> THEN <<>> ELSE <<"--args">> \o args) >>])

\* The removal itself is a TODO of the source: the target is echoed.
remove_project(app_keyword, file) == Outcome(<<Text(file)>>, "none")

-----------------------------------------------------------------------------
(* main: one process per invocation.  A process that ends by an uncaught     *)
(* exception, SystemExit(1) included, exits with status 1.                   *)

Process(outcome) ==
    [stdout |-> outcome.out, error |-> outcome.error,
     status |-> IF outcome.error = "none" THEN 0 ELSE 1]

Keywords == {"goland", "clion", "rider"}

Queries == {"", "proj", "Proj", "|~/proj|", "|nope|"}

Targets == {"~/proj"}

OpenArgs == {<<>>, <<"~/proj">>}

NotStarted == call = [fn |-> "none"]

main_ls ==
    /\ NotStarted
    /\ \E app_keyword \in Keywords, query \in Queries :
          /\ call' = [fn |-> "ls", app_keyword |-> app_keyword, query |-> query]
          /\ ret' = Process(list_options_in_alfred(app_keyword, query))
    /\ UNCHANGED env

main_rm ==
    /\ NotStarted
    /\ \E app_keyword \in Keywords, file \in Targets :
          /\ call' = [fn |-> "rm", app_keyword |-> app_keyword, file |-> file]
          /\ ret' = Process(remove_project(app_keyword, file))
    /\ UNCHANGED env

main_open ==
    /\ NotStarted
    /\ \E app_keyword \in Keywords, args \in OpenArgs :
          /\ call' = [fn |-> "open", app_keyword |-> app_keyword, args |-> args]
          /\ ret' = Process(open_app(app_keyword, args))
    /\ UNCHANGED env

\* no subcommand: parser.print_help()
main_help ==
    /\ NotStarted
    /\ call' = [fn |-> "help"]
    /\ ret' = Process(Outcome(<<Text("usage")>>, "none"))
    /\ UNCHANGED env

-----------------------------------------------------------------------------
(* The environments of the command-line specification *)

Range(f) == {f[x] : x \in DOMAIN f}

\* The sequences of at most n distinct elements of S.
RECURSIVE DistinctSeqs(_, _)
DistinctSeqs(S, n) ==
    IF n = 0 THEN {<<>>}
    ELSE LET shorter == DistinctSeqs(S, n - 1)
             longest == {t \in shorter : Len(t) = n - 1}
         IN  shorter \cup {Append(p[1], p[2]) :
                              p \in {q \in longest \X S : q[2] \notin Range(q[1])}}

HistoryEntry(key) ==
    [component |-> "RecentProjectsManager", option |-> "additionalInfo", key |-> key]

MainKeys == {"$USER_HOME$/proj", "/opt/a-b", "/opt/x/"}

MainFolders == <<"GoLand2020.2", "GoLand2020.2-backup">>

MainContents ==
    {NoFile, Malformed}
        \cup {Document([i \in 1..Len(keys) |-> HistoryEntry(keys[i])]) :
                 keys \in DistinctSeqs(MainKeys, MaxEntries)}

\* The subsequences of a sequence.
RECURSIVE SubSeqs(_)
SubSeqs(s) ==
    IF s = <<>> THEN {<<>>}
    ELSE LET rest == SubSeqs(Tail(s))
         IN  rest \cup {<<Head(s)>> \o r : r \in rest}

CommandLines == {"/Applications/GoLand.app/Contents/MacOS/goland",
                 "/Applications/CLion.app/Contents/MacOS/clion"}

\* /usr/bin/pgrep: runs, runs and fails, is not there, is not executable
PgrepStates == {"ok", "failed", "absent", "denied"}

Init ==
    /\ rootExists \in BOOLEAN
    /\ dirs \in (IF rootExists THEN SubSeqs(MainFolders) ELSE {<<>>})
    /\ xml \in [Range(dirs) -> MainContents]
    /\ nameFiles \in SUBSET {HOME \o "/proj"}
    /\ running \in SUBSET CommandLines
    /\ pgrepOK \in PgrepStates
    /\ call = [fn |-> "none"]
    /\ ret = NoRet

Next == main_ls \/ main_rm \/ main_open \/ main_help

Spec == Init /\ [][Next]_vars

-----------------------------------------------------------------------------
(* The functions on their own: Init draws the arguments, the action applies  *)
(* the function.                                                             *)

NotApplied == ret = NoRet

\* The sequences of at most n elements of S.
RECURSIVE SeqsUpTo(_, _)
SeqsUpTo(S, n) ==
    IF n = 0 THEN {<<>>}
    ELSE LET shorter == SeqsUpTo(S, n - 1)
         IN  shorter \cup {Append(p[1], p[2]) :
                              p \in {t \in shorter : Len(t) = n - 1} \X S}

\* The strings of exactly n characters of an alphabet.
RECURSIVE Strings(_, _)
Strings(alphabet, n) ==
    IF n = 0 THEN {""}
    ELSE {p[1] \o p[2] : p \in Strings(alphabet, n - 1) \X alphabet}

(* filter_and_sort_projects *)

RankPaths == {"~/Documents/spring-petclinic", "~/trash/My Project (42)",
              "~/dev/sp", "~/dev/wasp", "~/dev/Spring_Pet", "~/SP/x"}

RankQueries == {"", "sp", "SP", "s", "pet", "Pet", "m", "zzz"}

InitRank ==
    /\ rootExists = TRUE
    /\ dirs = <<>>
    /\ xml = <<>>
    /\ nameFiles \in SUBSET {HOME \o "/Documents/spring-petclinic"}
    /\ running = {}
    /\ pgrepOK = "ok"
    /\ \E query \in RankQueries, paths \in DistinctSeqs(RankPaths, MaxProjects) :
          call = [fn |-> "filter_and_sort_projects", query |-> query,
                  projects |-> map_Project(paths).value]
    /\ ret = NoRet

apply_filter_and_sort_projects ==
    /\ NotApplied
    /\ call.fn = "filter_and_sort_projects"
    /\ ret' = Returned(filter_and_sort_projects(call.query, call.projects))
    /\ UNCHANGED <<env, call>>

SpecRank == InitRank /\ [][apply_filter_and_sort_projects]_vars

(* read_projects_from_file *)

HistoryFolder == "GoLand2020.2"

HistoryFile ==
    expanduser(PREFERENCES_PATH) \o HistoryFolder \o "/options/recentProjects.xml"

HistoryKeyPool == {"$USER_HOME$/proj", "/opt/a-b", "$USER_HOME$/x/$USER_HOME$",
                   "/data/$USER_HOME$", "~/p$USER_HOME"}

HistoryEntryPool ==
    {[component |-> place[1], option |-> place[2], key |-> key] :
        place \in {<<"RecentProjectsManager", "additionalInfo">>,
                   <<"RecentProjectsManager", "groups">>,
                   <<"ProjectFrames", "additionalInfo">>},
        key \in HistoryKeyPool}

InitHistory ==
    /\ rootExists = TRUE
    /\ dirs = <<HistoryFolder>>
    /\ \E content \in {NoFile, Malformed}
                         \cup {Document(e) : e \in SeqsUpTo(HistoryEntryPool, MaxDocEntries)} :
          xml = [d \in {HistoryFolder} |-> content]
    /\ nameFiles = {}
    /\ running = {}
    /\ pgrepOK = "ok"
    /\ call = [fn |-> "read_projects_from_file", file |-> HistoryFile]
    /\ ret = NoRet

apply_read_projects_from_file ==
    /\ NotApplied
    /\ call.fn = "read_projects_from_file"
    /\ ret' = read_projects_from_file(call.file)
    /\ UNCHANGED <<env, call>>

SpecHistory == InitHistory /\ [][apply_read_projects_from_file]_vars

(* find_recentprojects_file *)

FolderPool == {"GoLand2020.1", "GoLand2020.2", "GoLand2020.2-backup", "GoLand9.3",
               "GoLand10.1", "CLion2020.3", "CLion2020.3-backup", "backup"}

InitFolders ==
    /\ rootExists \in BOOLEAN
    /\ dirs \in (IF rootExists THEN DistinctSeqs(FolderPool, MaxFolders) ELSE {<<>>})
    /\ xml = [d \in Range(dirs) |-> NoFile]
    /\ nameFiles = {}
    /\ running = {}
    /\ pgrepOK = "ok"
    /\ \E app_keyword \in DOMAIN Catalog :
          call = [fn |-> "find_recentprojects_file", app_keyword |-> app_keyword]
    /\ ret = NoRet

apply_find_recentprojects_file ==
    /\ NotApplied
    /\ call.fn = "find_recentprojects_file"
    /\ ret' = find_recentprojects_file(
                  Product(call.app_keyword, Catalog[call.app_keyword]))
    /\ UNCHANGED <<env, call>>

SpecFolders == InitFolders /\ [][apply_find_recentprojects_file]_vars

(* Project and its abbreviation *)

NameAlphabet == {"a", "B", "-", "_"}

InitAbbreviate ==
    /\ rootExists = TRUE
    /\ dirs = <<>>
    /\ xml = <<>>
    /\ nameFiles = {}
    /\ running = {}
    /\ pgrepOK = "ok"
    /\ \E n \in 0..MaxNameLen : \E name \in Strings(NameAlphabet, n) :
          call = [fn |-> "Project", path |-> "~/dev/" \o name]
    /\ ret = NoRet

apply_Project ==
    /\ NotApplied
    /\ call.fn = "Project"
    /\ ret' = Project(call.path)
    /\ UNCHANGED <<env, call>>

SpecAbbreviate == InitAbbreviate /\ [][apply_Project]_vars

(* is_process_running *)

AppNames == {"goland", "GoLand", "clion", "rider"}

InitGate ==
    /\ rootExists = TRUE
    /\ dirs = <<>>
    /\ xml = <<>>
    /\ nameFiles = {}
    /\ running \in SUBSET CommandLines
    /\ pgrepOK \in PgrepStates
    /\ \E app_name \in AppNames :
          call = [fn |-> "is_process_running", app_name |-> app_name]
    /\ ret = NoRet

apply_is_process_running ==
    /\ NotApplied
    /\ call.fn = "is_process_running"
    /\ ret' = is_process_running(call.app_name)
    /\ UNCHANGED <<env, call>>

SpecGate == InitGate /\ [][apply_is_process_running]_vars

-----------------------------------------------------------------------------
(* What the claims speak of, stated on the environment *)

IsDocument(w) == "items" \in DOMAIN w

\* The command wrote exactly one result document and exited with status 0.
OneDocument == /\ ret.status = 0
               /\ Len(ret.stdout) = 1
               /\ IsDocument(ret.stdout[1])

\* ProcessGate's report for a keyword, when the process table can be queried.
GateReportsRunning(keyword) ==
    /\ pgrepOK = "ok"
    /\ \E cmdline \in running : contains(lower(keyword), lower(cmdline))

GateReportsNotRunning(keyword) ==
    /\ pgrepOK = "ok"
    /\ \A cmdline \in running : ~contains(lower(keyword), lower(cmdline))

\* The folders that qualify for a product: its token, and not "backup".
Qualifying(keyword) ==
    {d \in Range(dirs) : /\ contains(Catalog[keyword].folder_name, d)
                         /\ ~contains("backup", d)}

\* a <= b in code point order, by the first place where they differ
LexLeq(a, b) ==
    \/ a = b
    \/ /\ Len(a) < Len(b)
       /\ SubSeq(b, 1, Len(a)) = a
    \/ \E i \in 1..Len(a) :
          /\ i <= Len(b)
          /\ SubSeq(a, 1, i - 1) = SubSeq(b, 1, i - 1)
          /\ ord(Char(a, i)) < ord(Char(b, i))

Greatest(names) == CHOOSE m \in names : \A d \in names : LexLeq(d, m)

\* HistorySource's NotFound: the root is there and no folder qualifies.
HistoryNotFound(keyword) ==
    /\ keyword \in DOMAIN Catalog
    /\ rootExists
    /\ Qualifying(keyword) = {}

\* HistorySource's FileNotFound: the selected folder has no recentProjects.xml.
HistoryFileMissing(keyword) ==
    /\ keyword \in DOMAIN Catalog
    /\ rootExists
    /\ Qualifying(keyword) # {}
    /\ xml[Greatest(Qualifying(keyword))].kind = "nofile"

\* The history records of a product, when its history can be read.
HistoryReadable(keyword) ==
    /\ keyword \in DOMAIN Catalog
    /\ rootExists
    /\ Qualifying(keyword) # {}
    /\ xml[Greatest(Qualifying(keyword))].kind = "doc"

HistoryKeys(keyword) == xml[Greatest(Qualifying(keyword))].entries

HasBars(query) ==
    \E i, j \in 1..Len(query) :
        /\ i + 2 <= j
        /\ Char(query, i) = "|"
        /\ Char(query, j) = "|"

-----------------------------------------------------------------------------
(* C1 *)

ListedFromHistory ==
    /\ call.fn = "ls"
    /\ HistoryReadable(call.app_keyword)
    /\ HistoryKeys(call.app_keyword) # <<>>
    /\ OneDocument

-----------------------------------------------------------------------------
(* C2 *)

\* C2 as stated: remove exits with status 1 when ProcessGate reports the
\* product running, and with status 0 when it reports it not running.
C2_RemoveRefusedWhileRunning ==
    call.fn = "rm" =>
        /\ GateReportsRunning(call.app_keyword) => ret.status = 1
        /\ GateReportsNotRunning(call.app_keyword) => ret.status = 0

-----------------------------------------------------------------------------
(* C3 *)

NoMalformedHistory == \A d \in Range(dirs) : xml[d].kind # "malformed"

\* C3 as stated: for a keyword of the catalog, any query and any history that
\* is absent or well-formed, list writes exactly one result document and exits
\* with status 0.
C3_ListAlwaysOneDocument ==
    (/\ call.fn = "ls"
     /\ call.app_keyword \in DOMAIN Catalog
     /\ NoMalformedHistory)
        => OneDocument

-----------------------------------------------------------------------------
(* C4 *)

HistorySourceFailed ==
    /\ call.fn = "ls"
    /\ \/ HistoryNotFound(call.app_keyword)
       \/ HistoryFileMissing(call.app_keyword)

-----------------------------------------------------------------------------
(* C5, C6, C7: filter_and_sort_projects *)

Ranked == /\ call.fn = "filter_and_sort_projects"
          /\ ret.kind = "return"

\* The place of a record in the input (the input's paths are distinct).
InputPlace(p) == CHOOSE i \in 1..Len(call.projects) : call.projects[i] = p

\* The lower-cased query is a substring of the lower-cased path, abbreviation
\* or name.
MatchesIgnoringCase(p, query) ==
    \/ contains(lower(query), lower(p.path))
    \/ contains(lower(query), lower(p.abbreviation))
    \/ contains(lower(query), lower(p.name))

\* C5 as stated: for a non-empty query a record is kept if and only if the
\* lower-cased query is a substring of its lower-cased path, abbreviation or
\* name.
C5_KeptIffMatchesIgnoringCase ==
    (Ranked /\ call.query # "") =>
        \A i \in 1..Len(call.projects) :
            (call.projects[i] \in Range(ret.value))
                <=> MatchesIgnoringCase(call.projects[i], call.query)

\* The rank of the claim: 0 on the exact abbreviation, 1 on a substring of the
\* name, 2 otherwise.
ClaimedRank(p, query) ==
    CASE query = p.abbreviation -> 0
      [] query # p.abbreviation /\ contains(query, p.name) -> 1
      [] OTHER -> 2

\* C6: for a non-empty query the returned records are in non-decreasing rank,
\* and records of equal rank keep the relative order they had in the input.
C6_RankedStable ==
    (Ranked /\ call.query # "") =>
        \A i, j \in 1..Len(ret.value) :
            i < j =>
                LET ri == ClaimedRank(ret.value[i], call.query)
                    rj == ClaimedRank(ret.value[j], call.query)
                IN  /\ ri <= rj
                    /\ ri = rj => InputPlace(ret.value[i]) < InputPlace(ret.value[j])

\* A record matched by its exact abbreviation was moved ahead of one matched by
\* a substring of its name, and two records of equal rank were returned.
C6_Witness ==
    /\ Ranked
    /\ call.query # ""
    /\ \E i, j \in 1..Len(ret.value) :
          /\ i < j
          /\ ClaimedRank(ret.value[i], call.query) = 0
          /\ ClaimedRank(ret.value[j], call.query) = 1
          /\ InputPlace(ret.value[j]) < InputPlace(ret.value[i])
    /\ \E i, j \in 1..Len(ret.value) :
          /\ i < j
          /\ ClaimedRank(ret.value[i], call.query) = ClaimedRank(ret.value[j], call.query)

\* C7: with the empty query the input sequence is returned unchanged.
C7_EmptyQueryUnchanged ==
    (Ranked /\ call.query = "") => ret.value = call.projects

\* The empty query was applied to three records.
C7_Witness ==
    /\ Ranked
    /\ call.query = ""
    /\ Len(call.projects) = 3
    /\ Len(ret.value) = 3

-----------------------------------------------------------------------------
(* C8: read_projects_from_file *)

TOKEN == "$USER_HOME$"

\* The places where the placeholder starts in a key.
Occurrences(key) ==
    {i \in 1..Len(key) : /\ i + Len(TOKEN) - 1 <= Len(key)
                         /\ SubSeq(key, i, i + Len(TOKEN) - 1) = TOKEN}

Before(places, i) == Cardinality({k \in places : k < i})

\* path is key with every occurrence of the placeholder replaced by "~": each
\* occurrence shrinks to one "~", every other character is kept in place.
IsShorthandOf(path, key) ==
    LET occ == Occurrences(key)
        shrink == Len(TOKEN) - 1
    IN  /\ Len(path) + shrink * Cardinality(occ) = Len(key)
        /\ \A i \in 1..Len(key) :
              IF i \in occ
              THEN Char(path, i - shrink * Before(occ, i)) = "~"
              ELSE (\A k \in occ : i < k \/ i >= k + Len(TOKEN))
                       => Char(path, i - shrink * Before(occ, i)) = Char(key, i)

\* The places of the file's entries under
\* RecentProjectsManager/additionalInfo/map.
StoredPlaces ==
    {i \in 1..Len(xml[HistoryFolder].entries) :
        /\ xml[HistoryFolder].entries[i].component = "RecentProjectsManager"
        /\ xml[HistoryFolder].entries[i].option = "additionalInfo"}

\* The k-th of a set of places, counted from the last.
FromLast(places, k) ==
    CHOOSE i \in places : Cardinality({m \in places : m > i}) = k - 1

\* C8: for a well-formed file holding keys k1..kn the paths read are exactly n,
\* in the order kn..k1, each the key with the placeholder replaced by "~".
C8_ReversedShorthand ==
    (call.fn = "read_projects_from_file" /\ ret # NoRet
        /\ xml[HistoryFolder].kind = "doc") =>
        /\ ret.kind = "return"
        /\ Len(ret.value) = Cardinality(StoredPlaces)
        /\ \A k \in 1..Len(ret.value) :
              IsShorthandOf(ret.value[k],
                            xml[HistoryFolder].entries[FromLast(StoredPlaces, k)].key)

\* Two different stored keys, the older with the placeholder twice, were read.
C8_Witness ==
    /\ call.fn = "read_projects_from_file"
    /\ ret.kind = "return"
    /\ xml[HistoryFolder].kind = "doc"
    /\ Cardinality(StoredPlaces) = 2
    /\ ret.value = <<"/opt/a-b", "~/x/~">>

-----------------------------------------------------------------------------
(* C9: find_recentprojects_file *)

\* C9: among the root's subdirectories the one selected is the greatest, in
\* lexicographic order, of those that hold the product's token and not
\* "backup"; with none of them the call fails with NotFound (ValueError).
C9_GreatestQualifying ==
    (call.fn = "find_recentprojects_file" /\ ret # NoRet /\ rootExists) =>
        IF Qualifying(call.app_keyword) = {}
        THEN ret.kind = "raise" /\ ret.error = "ValueError"
        ELSE /\ ret.kind = "return"
             /\ ret.value = expanduser(PREFERENCES_PATH)
                                \o Greatest(Qualifying(call.app_keyword))
                                \o "/options/recentProjects.xml"

\* A folder was selected although a backup folder and another product's folder
\* are greater.
C9_Witness ==
    /\ call.fn = "find_recentprojects_file"
    /\ call.app_keyword = "clion"
    /\ ret.kind = "return"
    /\ Range(dirs) = {"CLion2020.3", "CLion2020.3-backup", "GoLand2020.1"}

\* No folder qualifies and the call failed with NotFound.
C9_WitnessNotFound ==
    /\ call.fn = "find_recentprojects_file"
    /\ rootExists
    /\ dirs # <<>>
    /\ ret.kind = "raise"

-----------------------------------------------------------------------------
(* C10: Project.abbreviate *)

Constructed == /\ call.fn = "Project"
               /\ ret.kind = "return"

IsBreak(c) == c \in {"_", "-"}

\* The places of the characters that follow a run of break characters that
\* starts at place first or later.
AfterBreakRun(name, first) ==
    {i \in (first + 1)..Len(name) : /\ ~IsBreak(Char(name, i))
                                    /\ IsBreak(Char(name, i - 1))}

\* abbreviation is the name's first character followed, in order, by the
\* characters at the given places.
IsFirstThen(abbreviation, name, places) ==
    /\ Len(abbreviation) = 1 + Cardinality(places)
    /\ Char(abbreviation, 1) = Char(name, 1)
    /\ \A i \in places :
          Char(abbreviation, 2 + Before(places, i)) = Char(name, i)

\* C10 as stated: the abbreviation is the name's first character followed by
\* the first character after each run of break characters in the name.
C10_FirstThenAfterEveryRun ==
    Constructed =>
        IsFirstThen(ret.value.abbreviation, ret.value.name,
                    AfterBreakRun(ret.value.name, 1))

\* C10 (amended): the abbreviation is the name's first character followed by the
\* first character after each run of break characters that starts after the
\* first character; a name with no break character after its first character
\* yields a one-character abbreviation.
C10_FirstThenAfterLaterRuns ==
    Constructed =>
        IsFirstThen(ret.value.abbreviation, ret.value.name,
                    AfterBreakRun(ret.value.name, 2))

\* A name that starts with a break character and has a later run of them.
C10_Witness ==
    /\ Constructed
    /\ ret.value.name = "-a_B"
    /\ ret.value.abbreviation = "-B"

-----------------------------------------------------------------------------
(* C11 *)

\* The process-table query found a command line holding the name.
QueryReportsMatch ==
    /\ pgrepOK = "ok"
    /\ \E cmdline \in running : contains(lower(call.app_name), lower(cmdline))

\* C11: is_process_running never raises to its caller: it returns true only
\* when the process-table query reports a match, and returns false on "no
\* match" and on every other failure of the query, the query tool being
\* absent or not executable included.
C11_GateFailsClosed ==
    (call.fn = "is_process_running" /\ ret # NoRet)
        => /\ ret.kind = "return"
           /\ ret.value = QueryReportsMatch

\* The part of C11 the code keeps: whenever pgrep could be started, the answer
\* is a boolean, true exactly on a match.
C11_StartedQueryAnswers ==
    (call.fn = "is_process_running" /\ ret # NoRet /\ pgrepOK \in {"ok", "failed"})
        => /\ ret.kind = "return"
           /\ ret.value = QueryReportsMatch

\* pgrep could not be started and the exception reached the caller.
C11_GateRaised ==
    /\ call.fn = "is_process_running"
    /\ pgrepOK \in {"absent", "denied"}
    /\ ret # NoRet
    /\ ret.kind = "raise"

-----------------------------------------------------------------------------
(* C12 *)

\* The paths of known projects that the query names between two bars.
NamedKnownPaths ==
    {path \in {SubSeq(call.query, i + 1, j - 1) : i, j \in 1..Len(call.query)} :
        /\ contains("|" \o path \o "|", call.query)
        /\ \E k \in 1..Len(HistoryKeys(call.app_keyword)) :
              IsShorthandOf(path, HistoryKeys(call.app_keyword)[k].key)}

\* list in manage mode: the query names a known project, one document is out.
ManageMode ==
    /\ call.fn = "ls"
    /\ HistoryReadable(call.app_keyword)
    /\ NamedKnownPaths # {}
    /\ OneDocument

Carries(item, variable) ==
    /\ "variables" \in DOMAIN item
    /\ variable \in DOMAIN item.variables

Carrying(items, variable) == {i \in 1..Len(items) : Carries(items[i], variable)}

\* C12: in manage mode the mutating actions are offered only while the product
\* is not running.  When ProcessGate reports running, no item carries the
\* remove_from_list or delete_from_disk variable and the only enabled item is
\* the open action; when it reports not running, exactly one item carries
\* remove_from_list, exactly one carries delete_from_disk, and both have the
\* project's path as their argument.
C12_MutationsOnlyWhileNotRunning ==
    ManageMode =>
        LET items == ret.stdout[1].items
            enabled == {i \in 1..Len(items) : items[i].valid}
            mutating == Carrying(items, "remove_from_list")
                            \cup Carrying(items, "delete_from_disk")
        IN  /\ GateReportsRunning(call.app_keyword) =>
                  /\ mutating = {}
                  /\ Cardinality(enabled) = 1
                  /\ \A i \in enabled :
                        /\ items[i].arg \in NamedKnownPaths
                        /\ items[i].subtitle = "Open this project in the IDE"
            /\ GateReportsNotRunning(call.app_keyword) =>
                  /\ Cardinality(Carrying(items, "remove_from_list")) = 1
                  /\ Cardinality(Carrying(items, "delete_from_disk")) = 1
                  /\ \A i \in mutating : items[i].arg \in NamedKnownPaths

\* Manage mode was entered while the gate reported the product running.
C12_Witness ==
    /\ ManageMode
    /\ GateReportsRunning(call.app_keyword)
    /\ Len(ret.stdout[1].items) = 2

\* Manage mode was entered while the gate reported the product not running.
C12_WitnessNotRunning ==
    /\ ManageMode
    /\ GateReportsNotRunning(call.app_keyword)
    /\ Carrying(ret.stdout[1].items, "remove_from_list") # {}

=============================================================================
